---- MODULE Spec2Model ----
(***************************************************************************)
(* A model of three entry points of the e-signature web application:       *)
(*   - the payment webhook handler (src/unnamed/part_000),                 *)
(*   - the document detail page (documents/[id]/page.tsx),                 *)
(*   - the two-factor re-authentication dialog                             *)
(*     (sign/[token]/document-action-auth-2fa.tsx).                        *)
(* Each entry point has its own specification (SpecWebhook, SpecPage,      *)
(* SpecDialog); an await in the source is a step boundary in the model.    *)
(***************************************************************************)
EXTENDS Integers, Sequences, FiniteSets, TLC

VARIABLES
    \* ---- stored records (prisma) ----
    documents, recipients, fields, signatures,
    \* ---- payment webhook handler ----
    whPc,            \* position of the handler (the await it is suspended on)
    req,             \* the request: the stripe-signature header and the body
    event,           \* the constructed event (None before constructEvent)
    res,             \* the response sent (None while running)
    user,            \* local: result of prisma.user.findFirst
    signatureText,   \* local
    signatureDataUrl,\* local
    document,        \* local: the created document object
    recipient,       \* local
    field,           \* local
    sigOp, updOp,    \* the two promises of Promise.all
    effects,         \* the external calls made by the current request
    dbBefore,        \* the stored records when the current request arrived
    nRequests,
    \* ---- document detail page ----
    pagePc,          \* position of DocumentPage
    pageId,          \* params.id
    documentId, session, pageDocument, pageRecipients, pageFields,
    pageOutcome,     \* what the request ended in: a redirect, the page, an error
    pageCalls,       \* the data-layer calls of the current page request, in order
    \* ---- two-factor dialog ----
    open,            \* the dialog's open prop
    twoFactorEnabled,\* user.twoFactorEnabled
    token,           \* the form's token field
    isCurrentlyAuthenticating,
    formErrorCode,
    dlgPc,           \* "idle", or "awaiting" the onReauthFormSubmit promise
    attempted,       \* the token of the latest submit attempt
    submitted,       \* the argument the latest attempt gave onReauthFormSubmit
    caught,          \* the error the latest attempt caught
    dlgTrace         \* the calls the latest submit attempt made, in order

dbVars == <<documents, recipients, fields, signatures>>
whVars == <<whPc, req, event, res, user, signatureText, signatureDataUrl,
            document, recipient, field, sigOp, updOp, effects, dbBefore, nRequests>>
pageVars == <<pagePc, pageId, documentId, session, pageDocument, pageRecipients,
              pageFields, pageOutcome, pageCalls>>
dlgVars == <<open, twoFactorEnabled, token, isCurrentlyAuthenticating,
             formErrorCode, dlgPc, attempted, submitted, caught, dlgTrace>>
vars == <<dbVars, whVars, pageVars, dlgVars>>

----------------------------------------------------------------------------
(* Bounds of the model *)
MaxRequests == 1     \* webhook requests handled in one behaviour
MaxRefLen == 1       \* length of a client_reference_id string
MaxIdLen == 2        \* length of the page's id parameter
MaxTypedLen == 11    \* length of a typed 2FA token

----------------------------------------------------------------------------
(* JavaScript values: null/undefined is None, any other value v is Some(v).  *)
(* A string whose characters matter is a sequence of one-character strings.  *)
None == <<>>
Some(v) == <<v>>

\* JS truthiness of an optional string
Truthy(o) == o # None /\ o[1] # ""
\* a || b
OrElse(a, b) == IF Truthy(a) THEN a ELSE b
\* a ?? d
Coalesce(o, d) == IF o = None THEN d ELSE o[1]

RECURSIVE StringsUpTo(_, _)
StringsUpTo(chars, n) ==
    IF n = 0 THEN {<<>>}
    ELSE LET shorter == StringsUpTo(chars, n - 1)
         IN shorter \cup {Append(s, c) : s \in shorter, c \in chars}

----------------------------------------------------------------------------
(* Number(string): whitespace is trimmed, the empty string is 0, an optional  *)
(* sign followed by decimal digits is that integer, anything else is NaN      *)
(* (the strings of the model hold no '.', 'e', 'x' or 'Infinity').            *)
(* A number is the record [nan, val]; -0 and 0 are both val = 0.              *)
Digits == {"0", "1", "2", "3", "4", "5", "6", "7", "8", "9"}
DigitVal(c) ==
    CASE c = "0" -> 0 [] c = "1" -> 1 [] c = "2" -> 2 [] c = "3" -> 3 [] c = "4" -> 4
      [] c = "5" -> 5 [] c = "6" -> 6 [] c = "7" -> 7 [] c = "8" -> 8 [] c = "9" -> 9

NaN == [nan |-> TRUE, val |-> 0]
Num(n) == [nan |-> FALSE, val |-> n]

RECURSIVE TrimLeft(_)
TrimLeft(s) == IF s # <<>> /\ Head(s) = " " THEN TrimLeft(Tail(s)) ELSE s

RECURSIVE TrimRight(_)
TrimRight(s) ==
    IF s # <<>> /\ s[Len(s)] = " " THEN TrimRight(SubSeq(s, 1, Len(s) - 1)) ELSE s

RECURSIVE DigitsValue(_)
DigitsValue(s) ==
    IF s = <<>> THEN 0
    ELSE 10 * DigitsValue(SubSeq(s, 1, Len(s) - 1)) + DigitVal(s[Len(s)])

Number(s) ==
    LET t == TrimRight(TrimLeft(s)) IN
    IF t = <<>> THEN Num(0)
    ELSE LET signed == Head(t) \in {"-", "+"}
             body == IF signed THEN Tail(t) ELSE t
         IN IF body = <<>> \/ \E i \in 1..Len(body) : body[i] \notin Digits
            THEN NaN
            ELSE Num((IF Head(t) = "-" THEN -1 ELSE 1) * DigitsValue(body))

\* Number(null) is 0
NumberOpt(o) == IF o = None THEN Num(0) ELSE Number(o[1])

----------------------------------------------------------------------------
(*                       PAYMENT WEBHOOK HANDLER                           *)

\* Program constants of the handler
FieldPage == 0
FieldPositionX == 77
FieldPositionY == 638

\* prisma.user: the user table (the handler only reads it)
Users ==
    { [id |-> 1, name |-> Some("Ann"), email |-> "ann@example.com"],
      [id |-> 2, name |-> None, email |-> "bob@example.com"] }

\* The redis cache; the key `signature:${k}` is the pair <<"signature:", k>>,
\* a key stored without the prefix is the 1-tuple <<k>>.
RedisStore ==
    { [key |-> <<"signature:", "k1">>, value |-> "data:image/png;base64,AAA"],
      [key |-> <<"signature:", "k2">>, value |-> ""],
      [key |-> <<"k3">>, value |-> "data:image/png;base64,ZZZ"] }

RedisGet(key) ==
    IF \E e \in RedisStore : e.key = key
    THEN Some((CHOOSE e \in RedisStore : e.key = key).value)
    ELSE None

\* The signature the webhook secret verifies
GoodSig == "t=1,v1=good"

\* req.headers['stripe-signature']: string | string[] | undefined
Headers ==
    { [type |-> "undefined", value |-> ""],
      [type |-> "string", value |-> ""],
      [type |-> "string", value |-> GoodSig],
      [type |-> "string", value |-> "t=1,v1=forged"],
      [type |-> "array", value |-> GoodSig] }

RefChars == {"0", "1", "2", "x"}
ClientRefs == {None} \cup {Some(s) : s \in StringsUpTo(RefChars, MaxRefLen)}

Metadatas ==
    {None} \cup
    { Some([source |-> s, signatureText |-> t, signatureDataUrl |-> k]) :
        s \in {Some("landing"), Some("app")},
        t \in {None, Some(""), Some("Bob")},
        k \in {None, Some("k1"), Some("k2"), Some("k3")} }

EventTypes == {"checkout.session.completed", "invoice.paid"}

\* The events a request body can carry
Bodies ==
    [type : EventTypes, client_reference_id : ClientRefs, metadata : Metadatas]

TemplatePdf ==
    [file |-> "documenso-supporter-pledge.pdf", encoding |-> "base64", stamps |-> <<>>]

Db == [documents |-> documents, recipients |-> recipients,
       fields |-> fields, signatures |-> signatures]

Response(status, message) == Some([status |-> status, message |-> message])
\* What the framework answers when the handler throws
InternalServerError == Response(500, "Internal Server Error")

\* lines 35-36: the header is used only when it is a single string
StripeSignatureFirstOfArray(header) ==
    IF header.type \in {"string", "array"} THEN header.value ELSE ""
StripeSignature(header) == IF header.type = "string" THEN header.value ELSE ""

\* stripe.webhooks.constructEvent verifies the signature against the secret
SignatureVerifies(sig) == sig = GoodSig

\* line 57
EventTypeHandledAny(type) == TRUE
EventTypeHandled(type) == type = "checkout.session.completed"

\* line 60: session.metadata?.source === 'landing'
IsLanding(metadata) == metadata # None /\ metadata[1].source = Some("landing")

\* lines 61-65: prisma.user.findFirst({ where: { id } }); NaN matches no row
FindFirstUserAnyRow(n) ==
    IF \E u \in Users : ~n.nan /\ u.id = n.val
    THEN Some(CHOOSE u \in Users : u.id = n.val)
    ELSE Some(CHOOSE u \in Users : u.id = 1)
FindFirstUser(n) ==
    IF \E u \in Users : ~n.nan /\ u.id = n.val
    THEN Some(CHOOSE u \in Users : u.id = n.val)
    ELSE None

\* line 78: the cache key of a metadata-supplied key
SignatureCacheKey(k) == <<"signature:", k>>

\* insertImageInPDF / insertTextInPDF: one stamp at (page, x, y)
InsertImageInPDF(pdf, image, x, y, page) ==
    [pdf EXCEPT !.stamps =
        Append(@, [kind |-> "image", content |-> image, x |-> x, y |-> y, page |-> page])]
InsertTextInPDF(pdf, text, x, y, page) ==
    [pdf EXCEPT !.stamps =
        Append(@, [kind |-> "text", content |-> text, x |-> x, y |-> y, page |-> page])]

\* lines 123-139
StampAlwaysText(pdf, dataUrl, text, f) ==
    InsertTextInPDF(pdf, Coalesce(text, ""), f.positionX, f.positionY, f.page)
Stamp(pdf, dataUrl, text, f) ==
    IF dataUrl # ""
    THEN InsertImageInPDF(pdf, dataUrl, f.positionX, f.positionY, f.page)
    ELSE InsertTextInPDF(pdf, Coalesce(text, ""), f.positionX, f.positionY, f.page)

\* lines 142-149: the data of the signature record
SignatureData(f, r, dataUrl, text) ==
    [fieldId |-> f.id,
     recipientId |-> r.id,
     signatureImageAsBase64 |-> IF dataUrl # "" THEN Some(dataUrl) ELSE None,
     typedSignature |-> IF dataUrl # "" THEN Some("") ELSE text]

WebhookLocalsReset ==
    /\ event' = None /\ user' = None /\ signatureText' = None
    /\ signatureDataUrl' = "" /\ document' = None /\ recipient' = None
    /\ field' = None /\ sigOp' = "idle" /\ updOp' = "idle"

WebhookLocals == <<user, signatureText, signatureDataUrl, document, recipient, field>>

\* lines 26-46: a request arrives; the handler runs to `await buffer(req)`
\* (bodyParser is off: the body is not read before that await)
WebhookRequest(header) ==
    /\ whPc \in {"idle", "done"}
    /\ sigOp # "pending" /\ updOp # "pending"
    /\ nRequests < MaxRequests
    /\ nRequests' = nRequests + 1
    /\ req' = Some([header |-> header, body |-> None])
    /\ dbBefore' = Db
    /\ effects' = {}
    /\ WebhookLocalsReset
    /\ IF StripeSignature(header) = ""
       THEN /\ res' = Response(400, "No signature found in request")
            /\ whPc' = "done"
       ELSE /\ res' = None
            /\ whPc' = "buffer"
    /\ UNCHANGED <<dbVars, pageVars, dlgVars>>

\* lines 46-61: the body is read, the event constructed and dispatched
BufferDone(body) ==
    /\ whPc = "buffer"
    /\ UNCHANGED <<dbVars, pageVars, dlgVars, dbBefore, nRequests,
                   WebhookLocals, sigOp, updOp>>
    /\ req' = Some([req[1] EXCEPT !.body = Some(body)])
    /\ effects' = effects \cup {"buffer", "constructEvent"}
    /\ IF ~SignatureVerifies(StripeSignature(req[1].header))
       THEN /\ event' = None
            /\ res' = InternalServerError
            /\ whPc' = "done"
       ELSE /\ event' = Some(body)
            /\ IF ~EventTypeHandled(body.type)
               THEN /\ res' = Response(400, "Unhandled webhook event")
                    /\ whPc' = "done"
               ELSE IF ~IsLanding(body.metadata)
               THEN /\ res' = Response(200, "Webhook received")
                    /\ whPc' = "done"
               ELSE /\ res' = None
                    /\ whPc' = "findUser"

\* lines 61-87: the user lookup returns
FindUserDone ==
    /\ whPc = "findUser"
    /\ UNCHANGED <<dbVars, pageVars, dlgVars, req, event, dbBefore, nRequests,
                   document, recipient, field, sigOp, updOp, signatureDataUrl>>
    /\ effects' = effects \cup {"user.findFirst"}
    /\ LET session_ == event[1]
           found == FindFirstUser(NumberOpt(session_.client_reference_id))
       IN IF found = None
          THEN /\ res' = Response(500, "User not found")
               /\ whPc' = "done"
               /\ UNCHANGED <<user, signatureText>>
          ELSE /\ user' = found
               /\ signatureText' = OrElse(session_.metadata[1].signatureText, found[1].name)
               /\ res' = None
               /\ whPc' = IF Truthy(session_.metadata[1].signatureDataUrl)
                          THEN "redisGet" ELSE "createDocument"

\* lines 78-87: the cache answers
RedisGetDone ==
    /\ whPc = "redisGet"
    /\ UNCHANGED <<dbVars, pageVars, dlgVars, req, event, res, dbBefore, nRequests,
                   user, signatureText, document, recipient, field, sigOp, updOp>>
    /\ effects' = effects \cup {"redis.get"}
    /\ LET result == RedisGet(SignatureCacheKey(event[1].metadata[1].signatureDataUrl[1]))
       IN signatureDataUrl' = IF Truthy(result) THEN result[1] ELSE signatureDataUrl
    /\ whPc' = "createDocument"

\* lines 87-95: the document row is written
DocumentCreateDone ==
    /\ whPc = "createDocument"
    /\ UNCHANGED <<recipients, fields, signatures, pageVars, dlgVars, req, event, res,
                   dbBefore, nRequests, user, signatureText, signatureDataUrl,
                   recipient, field, sigOp, updOp>>
    /\ effects' = effects \cup {"document.create"}
    /\ LET row == [id |-> Len(documents) + 1,
                   title |-> "Documenso Supporter Pledge.pdf",
                   status |-> "COMPLETED",
                   userId |-> user[1].id,
                   document |-> TemplatePdf]
       IN /\ documents' = Append(documents, row)
          /\ document' = Some(row)
    /\ whPc' = "createRecipient"

\* lines 97-108: the recipient row is written (token and timestamps are not read
\* by the handler and are left out)
RecipientCreateDone ==
    /\ whPc = "createRecipient"
    /\ UNCHANGED <<documents, fields, signatures, pageVars, dlgVars, req, event, res,
                   dbBefore, nRequests, user, signatureText, signatureDataUrl,
                   document, field, sigOp, updOp>>
    /\ effects' = effects \cup {"recipient.create"}
    /\ LET row == [id |-> Len(recipients) + 1,
                   name |-> Coalesce(user[1].name, ""),
                   email |-> user[1].email,
                   readStatus |-> "OPENED",
                   sendStatus |-> "SENT",
                   signingStatus |-> "SIGNED",
                   documentId |-> document[1].id]
       IN /\ recipients' = Append(recipients, row)
          /\ recipient' = Some(row)
    /\ whPc' = "createField"

\* lines 110-123: the field row is written; stamping starts
FieldCreateDone ==
    /\ whPc = "createField"
    /\ UNCHANGED <<documents, recipients, signatures, pageVars, dlgVars, req, event, res,
                   dbBefore, nRequests, user, signatureText, signatureDataUrl,
                   document, recipient, sigOp, updOp>>
    /\ effects' = effects \cup {"field.create"}
    /\ LET row == [id |-> Len(fields) + 1,
                   documentId |-> document[1].id,
                   recipientId |-> recipient[1].id,
                   type |-> "SIGNATURE",
                   page |-> FieldPage,
                   positionX |-> FieldPositionX,
                   positionY |-> FieldPositionY,
                   inserted |-> FALSE,
                   customText |-> ""]
       IN /\ fields' = Append(fields, row)
          /\ field' = Some(row)
    /\ whPc' = "stamp"

\* lines 123-158: the PDF is stamped; signature.create and document.update start
StampDone ==
    /\ whPc = "stamp"
    /\ UNCHANGED <<dbVars, pageVars, dlgVars, req, event, res, dbBefore, nRequests,
                   user, signatureText, signatureDataUrl, recipient, field>>
    /\ effects' = effects \cup {"stamp"}
    /\ document' = Some([document[1] EXCEPT !.document =
                            Stamp(@, signatureDataUrl, signatureText, field[1])])
    /\ sigOp' = "pending"
    /\ updOp' = "pending"
    /\ whPc' = "promiseAll"

\* Promise.all resolves when both promises have, and then lines 161-164 answer
PromiseAllSettles(sig, upd) ==
    IF whPc = "promiseAll" /\ sig = "ok" /\ upd = "ok"
    THEN /\ res' = Response(200, "Webhook received")
         /\ whPc' = "done"
    ELSE IF whPc = "promiseAll" /\ "failed" \in {sig, upd}
    THEN /\ res' = InternalServerError
         /\ whPc' = "done"
    ELSE UNCHANGED <<res, whPc>>

\* lines 142-149: the signature row is written
SignatureCreateDone ==
    /\ sigOp = "pending"
    /\ UNCHANGED <<documents, recipients, fields, pageVars, dlgVars, req, event,
                   dbBefore, nRequests, WebhookLocals, updOp>>
    /\ effects' = effects \cup {"signature.create"}
    /\ signatures' = Append(signatures,
            [id |-> Len(signatures) + 1] @@
            SignatureData(field[1], recipient[1], signatureDataUrl, signatureText))
    /\ sigOp' = "ok"
    /\ PromiseAllSettles("ok", updOp)

\* lines 150-157: the stamped PDF is written onto the document row
DocumentUpdateDone ==
    /\ updOp = "pending"
    /\ UNCHANGED <<recipients, fields, signatures, pageVars, dlgVars, req, event,
                   dbBefore, nRequests, WebhookLocals, sigOp>>
    /\ effects' = effects \cup {"document.update"}
    /\ documents' = [documents EXCEPT ![document[1].id].document = document[1].document]
    /\ updOp' = "ok"
    /\ PromiseAllSettles(sigOp, "ok")

\* One of the two parallel writes fails: Promise.all rejects at once, the other
\* write is not cancelled
SignatureCreateRejects ==
    /\ sigOp = "pending"
    /\ UNCHANGED <<dbVars, pageVars, dlgVars, req, event, dbBefore, nRequests,
                   WebhookLocals, updOp, effects>>
    /\ sigOp' = "failed"
    /\ PromiseAllSettles("failed", updOp)

DocumentUpdateRejects ==
    /\ updOp = "pending"
    /\ UNCHANGED <<dbVars, pageVars, dlgVars, req, event, dbBefore, nRequests,
                   WebhookLocals, sigOp, effects>>
    /\ updOp' = "failed"
    /\ PromiseAllSettles(sigOp, "failed")

AwaitedSteps == {"buffer", "findUser", "redisGet", "createDocument",
                 "createRecipient", "createField", "stamp"}

\* The awaited call throws: the handler has no try/catch, so it ends there and
\* nothing it wrote is undone
AwaitRejectsWithRollback ==
    /\ whPc \in AwaitedSteps
    /\ UNCHANGED <<pageVars, dlgVars, req, event, dbBefore, nRequests,
                   WebhookLocals, sigOp, updOp, effects>>
    /\ documents' = dbBefore.documents
    /\ recipients' = dbBefore.recipients
    /\ fields' = dbBefore.fields
    /\ signatures' = dbBefore.signatures
    /\ res' = InternalServerError
    /\ whPc' = "done"
AwaitRejects ==
    /\ whPc \in AwaitedSteps
    /\ UNCHANGED <<dbVars, pageVars, dlgVars, req, event, dbBefore, nRequests,
                   WebhookLocals, sigOp, updOp, effects>>
    /\ res' = InternalServerError
    /\ whPc' = "done"

----------------------------------------------------------------------------
(*                          DOCUMENT DETAIL PAGE                           *)

IdChars == {"0", "1", "2", "a", "-", " "}
\* The values of the route parameter `id`
Ids == StringsUpTo(IdChars, MaxIdLen)

\* The users a session can belong to (None: no session)
Sessions == {None} \cup {Some([id |-> u.id]) : u \in Users}

\* getDocumentById({ id, userId }): the document with that id owned by that user;
\* None stands for the rejection that the page's .catch(() => null) turns into null
GetDocumentById(id, userId) ==
    IF \E i \in 1..Len(documents) : documents[i].id = id /\ documents[i].userId = userId
    THEN Some(documents[CHOOSE i \in 1..Len(documents) :
                            documents[i].id = id /\ documents[i].userId = userId])
    ELSE None

\* getRecipientsForDocument / getFieldsForDocument({ documentId, userId })
OwnedBy(docId, userId) ==
    \E i \in 1..Len(documents) : documents[i].id = docId /\ documents[i].userId = userId
GetRecipientsForDocument(docId, userId) ==
    LET Mine(r) == r.documentId = docId /\ OwnedBy(docId, userId)
    IN SelectSeq(recipients, Mine)
GetFieldsForDocument(docId, userId) ==
    LET Mine(f) == f.documentId = docId /\ OwnedBy(docId, userId)
    IN SelectSeq(fields, Mine)

PageCall(op, docId, userId, found) ==
    [op |-> op, documentId |-> docId, userId |-> userId, found |-> found]

\* line 25: !documentId || Number.isNaN(documentId)
InvalidDocumentIdNaNOnly(n) == n.nan
InvalidDocumentId(n) == (n.nan \/ n.val = 0) \/ n.nan

\* line 36: !document
LookupFailedNever(doc) == FALSE
LookupFailed(doc) == doc = None

\* lines 20-29: the page is requested; redirect() throws, so nothing follows it
PageRequest(id) ==
    /\ pagePc \in {"idle", "done"}
    /\ UNCHANGED <<dbVars, whVars, dlgVars>>
    /\ pageId' = id
    /\ documentId' = Number(id)
    /\ session' = None /\ pageDocument' = None
    /\ pageRecipients' = <<>> /\ pageFields' = <<>>
    /\ pageCalls' = <<>>
    /\ IF InvalidDocumentId(Number(id))
       THEN /\ pageOutcome' = "redirect:/documents"
            /\ pagePc' = "done"
       ELSE /\ pageOutcome' = "none"
            /\ pagePc' = "session"

\* lines 29-34: the session is resolved; without one the helper throws
SessionDone(s) ==
    /\ pagePc = "session"
    /\ UNCHANGED <<dbVars, whVars, dlgVars, pageId, documentId, pageDocument,
                   pageRecipients, pageFields>>
    /\ pageCalls' = Append(pageCalls, PageCall("getSession", 0, 0, s # None))
    /\ session' = s
    /\ IF s = None
       THEN /\ pageOutcome' = "error"
            /\ pagePc' = "done"
       ELSE /\ pageOutcome' = "none"
            /\ pagePc' = "lookup"

\* lines 31-41: the scoped lookup settles (threw: it rejected and was caught)
DocumentLookupSettles(threw) ==
    /\ pagePc = "lookup"
    /\ UNCHANGED <<dbVars, whVars, dlgVars, pageId, documentId, session,
                   pageRecipients, pageFields>>
    /\ LET doc == IF threw THEN None
                  ELSE GetDocumentById(documentId.val, session[1].id)
       IN /\ pageCalls' = Append(pageCalls,
                 PageCall("getDocumentById", documentId.val, session[1].id, doc # None))
          /\ pageDocument' = doc
          /\ IF LookupFailed(doc)
             THEN /\ pageOutcome' = "redirect:/documents"
                  /\ pagePc' = "done"
             ELSE /\ pageOutcome' = "none"
                  /\ pagePc' = "recipients"

\* lines 41-45: the recipients are fetched
RecipientsDone ==
    /\ pagePc = "recipients"
    /\ UNCHANGED <<dbVars, whVars, dlgVars, pageId, documentId, session, pageDocument,
                   pageFields, pageOutcome>>
    /\ pageCalls' = Append(pageCalls,
           PageCall("getRecipientsForDocument", documentId.val, session[1].id, TRUE))
    /\ pageRecipients' = GetRecipientsForDocument(documentId.val, session[1].id)
    /\ pagePc' = "fields"

\* lines 45-85: the fields are fetched and the page is rendered
FieldsDone ==
    /\ pagePc = "fields"
    /\ UNCHANGED <<dbVars, whVars, dlgVars, pageId, documentId, session, pageDocument,
                   pageRecipients>>
    /\ pageCalls' = Append(pageCalls,
           PageCall("getFieldsForDocument", documentId.val, session[1].id, TRUE))
    /\ pageFields' = GetFieldsForDocument(documentId.val, session[1].id)
    /\ pageOutcome' = "rendered"
    /\ pagePc' = "done"

\* An awaited fetch outside the lookup's catch rejects: the page errors
PageFetchRejects ==
    /\ pagePc \in {"session", "recipients", "fields"}
    /\ UNCHANGED <<dbVars, whVars, dlgVars, pageId, documentId, session, pageDocument,
                   pageRecipients, pageFields, pageCalls>>
    /\ pageOutcome' = "error"
    /\ pagePc' = "done"

----------------------------------------------------------------------------
(*                   TWO-FACTOR RE-AUTHENTICATION DIALOG                   *)

\* Z2FAAuthFormSchema: .min(4) and .max(10)
TokenMinLength == 4
TokenMaxLength == 10

TokenChars == {"1", "a"}

\* What onReauthFormSubmit can throw or reject with
ReauthErrors ==
    { [kind |-> "AppError", code |-> "UNAUTHORIZED", message |-> "Invalid token"],
      [kind |-> "Error", code |-> "", message |-> "fetch failed"] }

\* AppError.parseError(err).code
ParseErrorCode(err) == IF err.kind = "AppError" THEN err.code ELSE "UnknownError"

\* lines 35-40: the schema accepts a token of 4 to 10 characters
Z2FAAuthFormSchemaMinOnly(tok) == Len(tok) >= TokenMinLength
Z2FAAuthFormSchema(tok) == Len(tok) >= TokenMinLength /\ Len(tok) <= TokenMaxLength

\* The form is rendered (lines 93-117) in an open dialog and its fieldset
\* (line 120) is enabled
FormEnabled == open /\ twoFactorEnabled /\ ~isCurrentlyAuthenticating

\* The history of the latest submit attempt is dropped at the next input
ForgetAttempt ==
    /\ attempted' = None /\ submitted' = None /\ caught' = None /\ dlgTrace' = <<>>

\* lines 85-91: the effect that runs when `open` has changed
OpenEffect(value) ==
    /\ open' = value
    /\ IF value # open
       THEN /\ token' = <<>>
            /\ formErrorCode' = None
       ELSE UNCHANGED <<token, formErrorCode>>

\* lines 124-131: the user edits the token field
TypeChar(c) ==
    /\ FormEnabled /\ dlgPc = "idle"
    /\ Len(token) < MaxTypedLen
    /\ token' = Append(token, c)
    /\ ForgetAttempt
    /\ UNCHANGED <<dbVars, whVars, pageVars, open, twoFactorEnabled,
                   isCurrentlyAuthenticating, formErrorCode, dlgPc>>

Backspace ==
    /\ FormEnabled /\ dlgPc = "idle"
    /\ token # <<>>
    /\ token' = SubSeq(token, 1, Len(token) - 1)
    /\ ForgetAttempt
    /\ UNCHANGED <<dbVars, whVars, pageVars, open, twoFactorEnabled,
                   isCurrentlyAuthenticating, formErrorCode, dlgPc>>

\* lines 119, 54-70: form.handleSubmit validates the token and only then runs
\* onFormSubmit, which runs to the await of onReauthFormSubmit
SubmitForm ==
    /\ FormEnabled /\ dlgPc = "idle"
    /\ attempted' = Some(token)
    /\ caught' = None
    /\ UNCHANGED <<dbVars, whVars, pageVars, open, twoFactorEnabled, token, formErrorCode>>
    /\ IF Z2FAAuthFormSchema(token)
       THEN /\ isCurrentlyAuthenticating' = TRUE
            /\ submitted' = Some([type |-> "2FA", token |-> token])
            /\ dlgTrace' = << "handleSubmit", "setIsCurrentlyAuthenticating(true)",
                              "onReauthFormSubmit" >>
            /\ dlgPc' = "awaiting"
       ELSE /\ submitted' = None
            /\ dlgTrace' = << "handleSubmit" >>
            /\ UNCHANGED <<isCurrentlyAuthenticating, dlgPc>>

\* lines 72-74: the callback's promise resolves; onOpenChange(false) has the
\* parent set the open prop to false
ReauthResolves ==
    /\ dlgPc = "awaiting"
    /\ isCurrentlyAuthenticating' = FALSE
    /\ OpenEffect(FALSE)
    /\ dlgTrace' = dlgTrace \o << "setIsCurrentlyAuthenticating(false)", "onOpenChange(false)" >>
    /\ dlgPc' = "idle"
    /\ UNCHANGED <<dbVars, whVars, pageVars, twoFactorEnabled, attempted, submitted, caught>>

\* lines 75-82: the callback throws or its promise rejects
ReauthRejectsRawMessage(err) ==
    /\ dlgPc = "awaiting"
    /\ isCurrentlyAuthenticating' = FALSE
    /\ caught' = Some(err)
    /\ formErrorCode' = Some(err.message)
    /\ dlgTrace' = dlgTrace \o << "setIsCurrentlyAuthenticating(false)", "setFormErrorCode" >>
    /\ dlgPc' = "idle"
    /\ UNCHANGED <<dbVars, whVars, pageVars, open, twoFactorEnabled, token,
                   attempted, submitted>>
ReauthRejectsKeepsFlag(err) ==
    /\ dlgPc = "awaiting"
    /\ caught' = Some(err)
    /\ formErrorCode' = Some(ParseErrorCode(err))
    /\ dlgTrace' = dlgTrace \o << "setFormErrorCode" >>
    /\ dlgPc' = "idle"
    /\ UNCHANGED <<dbVars, whVars, pageVars, open, twoFactorEnabled, token,
                   attempted, submitted, isCurrentlyAuthenticating>>
ReauthRejects(err) ==
    /\ dlgPc = "awaiting"
    /\ isCurrentlyAuthenticating' = FALSE
    /\ caught' = Some(err)
    /\ formErrorCode' = Some(ParseErrorCode(err))
    /\ dlgTrace' = dlgTrace \o << "setIsCurrentlyAuthenticating(false)", "setFormErrorCode" >>
    /\ dlgPc' = "idle"
    /\ UNCHANGED <<dbVars, whVars, pageVars, open, twoFactorEnabled, token,
                   attempted, submitted>>

\* line 105: the Close button of the "setup 2FA" notice
CloseClicked ==
    /\ open /\ ~twoFactorEnabled
    /\ OpenEffect(FALSE)
    /\ UNCHANGED <<dbVars, whVars, pageVars, twoFactorEnabled, isCurrentlyAuthenticating,
                   dlgPc, attempted, submitted, caught, dlgTrace>>

\* line 148: the Cancel button, inside the fieldset
CancelClicked ==
    /\ FormEnabled
    /\ OpenEffect(FALSE)
    /\ UNCHANGED <<dbVars, whVars, pageVars, twoFactorEnabled, isCurrentlyAuthenticating,
                   dlgPc, attempted, submitted, caught, dlgTrace>>

\* lines 30, 48: the parent changes the open prop (it opens the dialog, or
\* closes it from outside the form)
ParentSetsOpen(value) ==
    /\ value # open
    /\ OpenEffect(value)
    /\ UNCHANGED <<dbVars, whVars, pageVars, twoFactorEnabled, isCurrentlyAuthenticating,
                   dlgPc, attempted, submitted, caught, dlgTrace>>

----------------------------------------------------------------------------
(*                              Initial states                             *)

\* Records stored before the behaviour starts: none, or the record set of an
\* earlier supporter pledge of user 1 signed with typed text
StoredPledge ==
    [documents |-> << [id |-> 1, title |-> "Documenso Supporter Pledge.pdf",
                       status |-> "COMPLETED", userId |-> 1,
                       document |-> InsertTextInPDF(TemplatePdf, "Ann", FieldPositionX,
                                                    FieldPositionY, FieldPage)] >>,
     recipients |-> << [id |-> 1, name |-> "Ann", email |-> "ann@example.com",
                        readStatus |-> "OPENED", sendStatus |-> "SENT",
                        signingStatus |-> "SIGNED", documentId |-> 1] >>,
     fields |-> << [id |-> 1, documentId |-> 1, recipientId |-> 1, type |-> "SIGNATURE",
                    page |-> FieldPage, positionX |-> FieldPositionX,
                    positionY |-> FieldPositionY, inserted |-> FALSE,
                    customText |-> ""] >>,
     signatures |-> << [id |-> 1, fieldId |-> 1, recipientId |-> 1,
                        signatureImageAsBase64 |-> None,
                        typedSignature |-> Some("Ann")] >>]
EmptyDb == [documents |-> <<>>, recipients |-> <<>>, fields |-> <<>>, signatures |-> <<>>]

InitDb ==
    \E db \in {EmptyDb, StoredPledge} :
        /\ documents = db.documents /\ recipients = db.recipients
        /\ fields = db.fields /\ signatures = db.signatures

InitWebhook ==
    /\ whPc = "idle"
    /\ req = None /\ event = None /\ res = None
    /\ user = None /\ signatureText = None /\ signatureDataUrl = ""
    /\ document = None /\ recipient = None /\ field = None
    /\ sigOp = "idle" /\ updOp = "idle"
    /\ effects = {}
    /\ dbBefore = Db
    /\ nRequests = 0

InitPage ==
    /\ pagePc = "idle" /\ pageId = <<>> /\ documentId = Num(0)
    /\ session = None /\ pageDocument = None /\ pageOutcome = "none"
    /\ pageRecipients = <<>> /\ pageFields = <<>>
    /\ pageCalls = <<>>

InitDialog ==
    /\ open = FALSE /\ twoFactorEnabled \in BOOLEAN /\ token = <<>>
    /\ isCurrentlyAuthenticating = FALSE /\ formErrorCode = None
    /\ dlgPc = "idle" /\ attempted = None /\ submitted = None /\ caught = None
    /\ dlgTrace = <<>>

Init == InitDb /\ InitWebhook /\ InitPage /\ InitDialog

NextWebhook ==
    \/ \E header \in Headers : WebhookRequest(header)
    \/ \E body \in Bodies : BufferDone(body)
    \/ FindUserDone
    \/ RedisGetDone
    \/ DocumentCreateDone
    \/ RecipientCreateDone
    \/ FieldCreateDone
    \/ StampDone
    \/ SignatureCreateDone
    \/ DocumentUpdateDone
    \/ SignatureCreateRejects
    \/ DocumentUpdateRejects
    \/ AwaitRejects

SpecWebhook == Init /\ [][NextWebhook]_vars

----------------------------------------------------------------------------
(*                    Properties of the webhook handler                    *)

\* The event of the current request is a completed checkout tagged 'landing'
LandingCheckout ==
    /\ event # None
    /\ event[1].type = "checkout.session.completed"
    /\ event[1].metadata # None
    /\ event[1].metadata[1].source = Some("landing")

\* The client_reference_id of the event is the id of no user
NoUserMatches ==
    \A u \in Users : NumberOpt(event[1].client_reference_id) # Num(u.id)

ResponseStatus == res[1].status

\* C1: a verified completed-checkout event tagged 'landing' whose
\* client_reference_id matches no user is answered with HTTP 500, and the stored
\* documents, recipients, fields and signatures are those from before the request.
C1_UserNotFound ==
    (LandingCheckout /\ NoUserMatches) =>
        /\ Db = dbBefore
        /\ whPc = "done" => ResponseStatus = 500
        /\ (whPc = "done" /\ "user.findFirst" \in effects)
              => res = Response(500, "User not found")

C1_Witness ==
    /\ LandingCheckout /\ NoUserMatches
    /\ whPc = "done"
    /\ "user.findFirst" \in effects
    /\ res = Response(500, "User not found")
    /\ dbBefore.documents # <<>>

\* C2: a request whose stripe-signature header is absent, empty or not a single
\* string is answered with HTTP 400 without reading the body, constructing an
\* event, querying the user table or the cache, or writing any record.
C2_MissingSignature ==
    (req # None /\ (req[1].header.type # "string" \/ req[1].header.value = "")) =>
        /\ whPc = "done"
        /\ res = Response(400, "No signature found in request")
        /\ req[1].body = None
        /\ event = None
        /\ effects = {}
        /\ Db = dbBefore

C2_Witness ==
    /\ req # None
    /\ req[1].header.type = "array"
    /\ whPc = "done"
    /\ ResponseStatus = 400

\* The image the cache holds for the metadata's key, "" when there is none
CachedImage ==
    LET k == event[1].metadata[1].signatureDataUrl IN
    IF Truthy(k) /\ \E e \in RedisStore : e.key = <<"signature:", k[1]>>
    THEN (CHOOSE e \in RedisStore : e.key = <<"signature:", k[1]>>).value
    ELSE ""

\* metadata signatureText if non-empty, otherwise the user's name (None if null)
TypedText ==
    IF Truthy(event[1].metadata[1].signatureText)
    THEN event[1].metadata[1].signatureText
    ELSE user[1].name

TheStamp(kind, content) ==
    [kind |-> kind, content |-> content,
     x |-> 77, y |-> 638, page |-> 0]

NewSignature == signatures[Len(signatures)]

\* The parts of C3 that do not depend on how a missing user name is treated
C3_Common ==
    /\ ("stamp" \in effects /\ CachedImage # "") =>
          document[1].document.stamps = << TheStamp("image", CachedImage) >>
    /\ ("stamp" \in effects /\ CachedImage = "") =>
          /\ Len(document[1].document.stamps) = 1
          /\ document[1].document.stamps[1].kind = "text"
          /\ document[1].document.stamps[1].x = 77
          /\ document[1].document.stamps[1].y = 638
          /\ document[1].document.stamps[1].page = 0
    /\ "stamp" \in effects => document[1].document.file = TemplatePdf.file
    /\ ("signature.create" \in effects /\ CachedImage # "") =>
          /\ NewSignature.signatureImageAsBase64 = Some(CachedImage)
          /\ NewSignature.typedSignature = Some("")
    /\ ("signature.create" \in effects /\ CachedImage = "") =>
          NewSignature.signatureImageAsBase64 = None
    /\ "signature.create" \in effects =>
          /\ NewSignature.fieldId = field[1].id
          /\ NewSignature.recipientId = recipient[1].id
    /\ "document.update" \in effects =>
          /\ documents[document[1].id].document = document[1].document
          /\ documents[document[1].id].document.stamps # <<>>
    /\ (whPc = "done" /\ ResponseStatus = 200) =>
          {"stamp", "signature.create", "document.update"} \subseteq effects

\* C3 (as stated): with a cached image the PDF is stamped with the image and the
\* signature record stores the image and an empty typed signature; otherwise the
\* PDF is stamped with the text T, the metadata signatureText if non-empty and
\* otherwise the user's name, and the signature record stores that same T and no
\* image; the stamp is at page 0, x=77, y=638 and the stamped PDF is persisted.
C3_AsStated ==
    (LandingCheckout /\ user # None) =>
        /\ C3_Common
        /\ ("stamp" \in effects /\ CachedImage = "") =>
              Some(document[1].document.stamps[1].content) = TypedText
        /\ ("signature.create" \in effects /\ CachedImage = "") =>
              NewSignature.typedSignature = TypedText

\* C3 (amended): as stated, except that for a user without a name and without
\* metadata signatureText the stamped text is the empty string while the signature
\* record stores a null typed signature.
C3_StampAndSignature ==
    (LandingCheckout /\ user # None) =>
        /\ C3_Common
        /\ ("stamp" \in effects /\ CachedImage = "") =>
              document[1].document.stamps[1].content =
                  (IF TypedText = None THEN "" ELSE TypedText[1])
        /\ ("signature.create" \in effects /\ CachedImage = "") =>
              NewSignature.typedSignature = TypedText

\* A user without a name and an event without signatureText: the text case
C3_Witness ==
    /\ LandingCheckout /\ user # None
    /\ whPc = "done" /\ ResponseStatus = 200
    /\ CachedImage = ""
    /\ TypedText = None
    /\ sigOp = "ok" /\ updOp = "ok"
    /\ documents[document[1].id].document.stamps = << TheStamp("text", "") >>
    /\ NewSignature.typedSignature = None

\* C4: with a signature header and a constructed event, every event type other
\* than 'checkout.session.completed' is answered with HTTP 400 and writes nothing;
\* a completed checkout not tagged 'landing' is answered with HTTP 200 and writes
\* nothing; a landing checkout of an existing user whose create/stamp/persist
\* sequence completes is answered with HTTP 200.
C4_StatusCodes ==
    (event # None /\ whPc = "done") =>
        /\ event[1].type # "checkout.session.completed" =>
              /\ res = Response(400, "Unhandled webhook event")
              /\ Db = dbBefore
        /\ (event[1].type = "checkout.session.completed" /\ ~LandingCheckout) =>
              /\ res = Response(200, "Webhook received")
              /\ Db = dbBefore
        /\ (LandingCheckout /\ user # None /\ sigOp = "ok" /\ updOp = "ok") =>
              res = Response(200, "Webhook received")

C4_Witness ==
    /\ event # None /\ whPc = "done"
    /\ LandingCheckout /\ user # None
    /\ sigOp = "ok" /\ updOp = "ok"
    /\ ResponseStatus = 200
    /\ Len(documents) = Len(dbBefore.documents) + 1

\* C5: when the create/stamp/persist sequence fails partway, the rows written by
\* the steps that had succeeded stay stored as they were written: nothing is
\* rolled back, so a COMPLETED document with the unstamped template and without
\* recipient, field or signature can remain.
C5_NoRollback ==
    (whPc = "done" /\ res = InternalServerError) =>
        /\ "document.create" \in effects =>
              /\ Len(documents) = Len(dbBefore.documents) + 1
              /\ documents[Len(documents)].status = "COMPLETED"
              /\ "document.update" \notin effects =>
                    documents[Len(documents)].document = TemplatePdf
        /\ "recipient.create" \in effects =>
              Len(recipients) = Len(dbBefore.recipients) + 1
        /\ "field.create" \in effects =>
              Len(fields) = Len(dbBefore.fields) + 1
        /\ "signature.create" \in effects =>
              Len(signatures) = Len(dbBefore.signatures) + 1

C5_Witness ==
    /\ whPc = "done" /\ res = InternalServerError
    /\ sigOp # "pending" /\ updOp # "pending"
    /\ \E d \in 1..Len(documents) :
          /\ d > Len(dbBefore.documents)
          /\ documents[d].status = "COMPLETED"
          /\ documents[d].document = TemplatePdf
          /\ \A i \in 1..Len(recipients) : recipients[i].documentId # d
          /\ \A i \in 1..Len(fields) : fields[i].documentId # d
          /\ Len(signatures) = Len(dbBefore.signatures)

----------------------------------------------------------------------------
(*                  Specification of the document detail page              *)

\* The documents the page can be asked for: document 1 of user 1, and a second
\* document of user 2
OtherDocument ==
    [id |-> 2, title |-> "Contract.pdf", status |-> "DRAFT", userId |-> 2,
     document |-> [file |-> "contract.pdf", encoding |-> "base64", stamps |-> <<>>]]
OtherRecipient ==
    [id |-> 2, name |-> "Carl", email |-> "carl@example.com", readStatus |-> "NOT_OPENED",
     sendStatus |-> "NOT_SENT", signingStatus |-> "NOT_SIGNED", documentId |-> 2]

InitPageDb ==
    \E withOther \in BOOLEAN, db \in {EmptyDb, StoredPledge} :
        /\ documents = IF withOther /\ db = StoredPledge
                       THEN Append(db.documents, OtherDocument) ELSE db.documents
        /\ recipients = IF withOther /\ db = StoredPledge
                        THEN Append(db.recipients, OtherRecipient) ELSE db.recipients
        /\ fields = db.fields
        /\ signatures = db.signatures

InitForPage == InitPageDb /\ InitWebhook /\ InitPage /\ InitDialog

NextPage ==
    \/ \E id \in Ids : PageRequest(id)
    \/ \E s \in Sessions : SessionDone(s)
    \/ \E threw \in BOOLEAN : DocumentLookupSettles(threw)
    \/ RecipientsDone
    \/ FieldsDone
    \/ PageFetchRejects

SpecPage == InitForPage /\ [][NextPage]_vars

----------------------------------------------------------------------------
(*                   Properties of the document detail page                *)

PageRequested == pagePc # "idle"

\* C6: for every id for which Number(id) is NaN or 0 (the empty string included)
\* the request ends in a redirect to '/documents' before the session is looked up
\* and before any document, recipient or field fetch; the page is not rendered.
C6_InvalidIdRedirects ==
    (PageRequested /\ (Number(pageId).nan \/ Number(pageId).val = 0)) =>
        /\ pagePc = "done"
        /\ pageOutcome = "redirect:/documents"
        /\ pageCalls = <<>>
        /\ session = None
        /\ pageDocument = None

C6_Witness ==
    /\ PageRequested
    /\ pageId = <<" ", "0">>
    /\ pagePc = "done"
    /\ pageOutcome = "redirect:/documents"

IsFetch(call) == call.op \in {"getRecipientsForDocument", "getFieldsForDocument"}

\* C7: when the lookup for (documentId, session user id) throws or returns
\* nothing the page redirects to '/documents'; recipients and fields are fetched,
\* and the form rendered, only after the lookup has returned a document, with the
\* documentId and session user id of that lookup.
C7_ScopedLookup ==
    /\ \A i \in 1..Len(pageCalls) :
          (pageCalls[i].op = "getDocumentById" /\ ~pageCalls[i].found) =>
              /\ pagePc = "done"
              /\ pageOutcome = "redirect:/documents"
              /\ i = Len(pageCalls)
    /\ \A i \in 1..Len(pageCalls) :
          IsFetch(pageCalls[i]) =>
              /\ \E j \in 1..(i - 1) :
                    /\ pageCalls[j].op = "getDocumentById"
                    /\ pageCalls[j].found
                    /\ pageCalls[j].documentId = pageCalls[i].documentId
                    /\ pageCalls[j].userId = pageCalls[i].userId
              /\ pageCalls[i].documentId = Number(pageId).val
              /\ pageCalls[i].userId = session[1].id
    /\ \A i \in 1..Len(pageCalls) :
          pageCalls[i].op = "getDocumentById" =>
              /\ pageCalls[i].documentId = Number(pageId).val
              /\ pageCalls[i].userId = session[1].id
    /\ pageOutcome = "rendered" =>
          /\ pageDocument # None
          /\ \E j \in 1..Len(pageCalls) :
                pageCalls[j].op = "getDocumentById" /\ pageCalls[j].found
          /\ \E i \in 1..Len(pageCalls) : pageCalls[i].op = "getRecipientsForDocument"
          /\ \E i \in 1..Len(pageCalls) : pageCalls[i].op = "getFieldsForDocument"

\* A document that exists but belongs to another user: the page redirects
C7_Witness ==
    /\ pagePc = "done"
    /\ pageOutcome = "redirect:/documents"
    /\ session # None
    /\ \E i \in 1..Len(documents) :
          /\ documents[i].id = Number(pageId).val
          /\ documents[i].userId # session[1].id
    /\ pageCalls[Len(pageCalls)].op = "getDocumentById"
    /\ ~pageCalls[Len(pageCalls)].found

----------------------------------------------------------------------------
(*                Specification of the two-factor dialog                   *)

NextDialog ==
    \/ \E c \in TokenChars : TypeChar(c)
    \/ Backspace
    \/ SubmitForm
    \/ ReauthResolves
    \/ \E err \in ReauthErrors : ReauthRejects(err)
    \/ CloseClicked
    \/ CancelClicked
    \/ \E value \in BOOLEAN : ParentSetsOpen(value)

SpecDialog == Init /\ [][NextDialog]_vars

----------------------------------------------------------------------------
(*                    Properties of the two-factor dialog                  *)

InTrace(call) == \E i \in 1..Len(dlgTrace) : dlgTrace[i] = call

\* C8: onReauthFormSubmit is invoked only with type 2FA and the form's token, of
\* length 4 to 10; a submit attempt with a shorter or longer token invokes no
\* callback, does not set the authenticating flag and does not close the dialog.
C8_TokenLengthValidated ==
    /\ submitted # None =>
          /\ submitted[1].type = "2FA"
          /\ submitted[1].token = attempted[1]
          /\ Len(submitted[1].token) >= 4
          /\ Len(submitted[1].token) <= 10
    /\ InTrace("onReauthFormSubmit") => submitted # None
    /\ (attempted # None /\ (Len(attempted[1]) < 4 \/ Len(attempted[1]) > 10)) =>
          /\ dlgTrace = << "handleSubmit" >>
          /\ submitted = None
          /\ dlgPc = "idle"
          /\ ~isCurrentlyAuthenticating
    /\ (attempted # None /\ Len(attempted[1]) >= 4 /\ Len(attempted[1]) <= 10) =>
          submitted # None

C8_Witness ==
    /\ attempted # None
    /\ Len(attempted[1]) = 11
    /\ dlgTrace = << "handleSubmit" >>
    /\ open
    /\ ~isCurrentlyAuthenticating

\* C9: when the callback fails the code parsed from the error is stored as the form
\* error code (so the alert shows) and the submit handler does not close the
\* dialog; when it succeeds onOpenChange(false) is called and the submission sets
\* no error code; whenever open changes the stored error code is cleared.
C9_ErrorCodeSurfaced ==
    [][ /\ (dlgPc = "awaiting" /\ dlgPc' = "idle" /\ caught' # None) =>
              /\ formErrorCode' = Some(ParseErrorCode(caught'[1]))
              /\ Truthy(formErrorCode')
              /\ formErrorCode'[1] \in {"UNAUTHORIZED", "UnknownError"}
              /\ open' = open
              /\ \A i \in 1..Len(dlgTrace') : dlgTrace'[i] # "onOpenChange(false)"
        /\ (dlgPc = "awaiting" /\ dlgPc' = "idle" /\ caught' = None) =>
              /\ dlgTrace'[Len(dlgTrace')] = "onOpenChange(false)"
              /\ open' = FALSE
              /\ \A i \in 1..Len(dlgTrace') : dlgTrace'[i] # "setFormErrorCode"
              /\ formErrorCode' \in {None, formErrorCode}
        /\ open' # open => formErrorCode' = None
      ]_vars

C9_Witness ==
    /\ dlgPc = "idle"
    /\ caught = Some([kind |-> "Error", code |-> "", message |-> "fetch failed"])
    /\ formErrorCode = Some("UnknownError")
    /\ open

\* C10: the authenticating flag is set before onReauthFormSubmit is invoked and is
\* reset on the success path and on the failure path, so it is false once a submit
\* attempt has finished; on the success path it is reset before the dialog closes.
C10_FlagReset ==
    /\ dlgPc = "idle" => ~isCurrentlyAuthenticating
    /\ dlgPc = "awaiting" =>
          /\ isCurrentlyAuthenticating
          /\ dlgTrace = << "handleSubmit", "setIsCurrentlyAuthenticating(true)",
                           "onReauthFormSubmit" >>
    /\ (dlgPc = "idle" /\ submitted # None /\ caught = None) =>
          dlgTrace = << "handleSubmit", "setIsCurrentlyAuthenticating(true)",
                        "onReauthFormSubmit", "setIsCurrentlyAuthenticating(false)",
                        "onOpenChange(false)" >>
    /\ (dlgPc = "idle" /\ submitted # None /\ caught # None) =>
          dlgTrace = << "handleSubmit", "setIsCurrentlyAuthenticating(true)",
                        "onReauthFormSubmit", "setIsCurrentlyAuthenticating(false)",
                        "setFormErrorCode" >>

C10_Witness ==
    /\ dlgPc = "idle"
    /\ submitted # None
    /\ caught # None
    /\ ~isCurrentlyAuthenticating
    /\ open

====
